---- MODULE Spec2Model ----
(***************************************************************************)
(* Model of src/llamaquery_api.py: the FastAPI handler `llamaquery`, which *)
(* routes one query between the "SharePoint Deal Pipeline" and             *)
(* "SharePoint Thematic Work" indices through a RouterQueryEngine.         *)
(*                                                                         *)
(* One coroutine per request.  A coroutine only yields at its awaits       *)
(* (line 41, request.json(); line 112, asyncio.to_thread), so the handler  *)
(* is cut into the steps between them.  The worker thread started by       *)
(* asyncio.to_thread runs router_engine.query on its own.                  *)
(***************************************************************************)
EXTENDS Integers, Sequences, FiniteSets, TLC

\* ----- bounds of the model ------------------------------------------------
NumRequests == 2

Requests == 1..NumRequests

\* ----- Python values ------------------------------------------------------
\* A value that is None or a str; data.get("query") yields one of these.
PyNone == [type |-> "NoneType", str |-> ""]
PyStr(s) == [type |-> "str", str |-> s]

\* bool(v) as `not query` (line 44) evaluates it: None and "" are falsy.
Truthy(v) == v.type = "str" /\ v.str # ""

\* str.strip() (line 120) on a text held as a sequence of characters.
Whitespace == {" ", "\n"}

RECURSIVE LStrip(_)
LStrip(s) == IF s # <<>> /\ Head(s) \in Whitespace THEN LStrip(Tail(s)) ELSE s

RECURSIVE RStrip(_)
RStrip(s) ==
    IF s # <<>> /\ s[Len(s)] \in Whitespace
    THEN RStrip(SubSeq(s, 1, Len(s) - 1))
    ELSE s

Strip(s) == RStrip(LStrip(s))

\* ----- request payloads (inputs) -------------------------------------------
\* Filter items of a payload: key and value; a value is a sequence of
\* characters.  The handler never reads the "filters" key.
NoFilters == <<>>
SpacedFilters == <<[key |-> "company", value |-> <<"B", " ", "O">>]>>

\* What `await request.json()` produces: a mapping (dict), a JSON value that
\* is not a mapping (a list), or no value because the body is not JSON.
Mapping(keys, q, f) == [kind |-> "mapping", keys |-> keys, query |-> q, filters |-> f]
NoData == [kind |-> "none", keys |-> {}, query |-> PyNone, filters |-> NoFilters]
ListData == [kind |-> "list", keys |-> {}, query |-> PyNone, filters |-> NoFilters]

Payloads ==
    { Mapping({}, PyNone, NoFilters),
      Mapping({"query"}, PyNone, NoFilters),
      Mapping({"query"}, PyStr(""), NoFilters),
      Mapping({"query"}, PyStr("What is the deal size?"), NoFilters),
      Mapping({"query", "filters"}, PyStr("What is the deal size?"), SpacedFilters),
      ListData }

\* dict.get(key) on the payload (line 42): the value, or None when absent.
DataGetQuery(d) == IF "query" \in d.keys THEN d.query ELSE PyNone

\* ----- the dependencies' possible behaviour (inputs) ----------------------
\* The two query engine tools handed to RouterQueryEngine (lines 91-106).
Targets == {"deal", "thematic"}

\* Exceptions a dependency call can raise; str(e) is msg.
ReadTimeout == [type |-> "ReadTimeout", msg |-> "read timed out"]
RemoteProtocolError == [type |-> "RemoteProtocolError", msg |-> "server disconnected"]
AuthenticationError == [type |-> "AuthenticationError", msg |-> "invalid api key"]
SelectorError == [type |-> "ValueError", msg |-> "failed to select a query engine"]
AttributeError == [type |-> "AttributeError", msg |-> "'NoneType' object has no attribute 'get'"]
BuildError == [type |-> "ValueError", msg |-> "could not build the query engines"]

QueryExceptions == {ReadTimeout, RemoteProtocolError, AuthenticationError, SelectorError}

\* response.metadata of a query result: None, or a dict that may hold
\* "selectorResult", itself a dict that may hold "selected_tool".
Metadata(isNone, keys, selKeys, tool) ==
    [isNone |-> isNone, keys |-> keys, selectorKeys |-> selKeys, selected_tool |-> tool]

MetadataOf(sel) ==
    { Metadata(TRUE, {}, {}, ""),
      Metadata(FALSE, {}, {}, ""),
      Metadata(FALSE, {"selectorResult"}, {}, ""),
      Metadata(FALSE, {"selectorResult"}, {"selected_tool"}, sel) }

\* response.response of a query result, before line 120 strips it.
Texts == { <<" ", "D", "\n">> }

NoResult == [kind |-> "none"]

\* Outcomes of router_engine.query(query) (line 112): the selector picks one
\* tool, that tool's engine alone is queried (RouterQueryEngine.from_defaults
\* builds a single-selection router) and a response object comes back; or
\* the call raises.
OkOutcomes ==
    UNION { { [kind |-> "ok", sel |-> t, queried |-> {t}, metadata |-> m, response |-> x]
              : m \in MetadataOf(t), x \in Texts } : t \in Targets }

RaiseOutcomes == { [kind |-> "raise", exc |-> e] : e \in QueryExceptions }

\* The dependency calls of lines 60-107, in program order.
BuildSteps ==
    << "LlamaCloudIndex", "LlamaCloudIndex", "OpenAI",
       "RetrieverQueryEngine", "RetrieverQueryEngine", "RouterQueryEngine" >>

\* Position in BuildSteps of the call whose result line 79 stores.
LlmStep == 3

\* ----- state ----------------------------------------------------------------
VARIABLES
    env,          \* which of LLAMA_API_KEY / OPENAI_API_KEY the process has
    Settings_llm, \* llama_index Settings.llm: 0 at startup, else the request
                  \* whose OpenAI object is installed (line 79)
    pc,           \* per request: where its coroutine stands
    data,         \* per request: the parsed payload (line 41)
    effects,      \* per request: dependency calls and waits it has made
    queryArgs,    \* per request: argument tuples of its router_engine.query calls
    thread,       \* per request: its asyncio.to_thread worker
    result,       \* per request: what router_engine.query produced
    response      \* per request: the dict the handler returned, <<>> if none

vars == <<env, Settings_llm, pc, data, effects, queryArgs, thread, result, response>>

NoResponse == <<>>

\* ----- responses the handler builds ---------------------------------------
\* Line 45.
MissingQueryResponse == [error |-> "Missing 'query' in request body"]

\* Line 51.
MissingKeysResponse == [error |-> "Missing LLAMA_API_KEY or OPENAI_API_KEY in environment"]

\* The except branch with the exception's description left out.
RouterFailedNoDetail(e) == [error |-> "Router query failed"]

\* Line 125: the except branch, f"Router query failed: {str(e)}".
RouterFailedResponse(e) == [error |-> "Router query failed: " \o e.msg]

\* Lines 113-115: response.metadata.get("selectorResult", {}).get("selected_tool", "Unknown").
SelectorResultKeys(m) == IF "selectorResult" \in m.keys THEN m.selectorKeys ELSE {}

SelectedTool(m) ==
    IF "selected_tool" \in SelectorResultKeys(m) THEN m.selected_tool ELSE "Unknown"

\* The success dict with an error key added to it.
SuccessResponseWithError(q, res) ==
    [ query |-> q,
      selected_index |-> SelectedTool(res.metadata),
      response |-> Strip(res.response),
      metadata |-> res.metadata,
      error |-> "" ]

\* Lines 117-122.
SuccessResponse(q, res) ==
    [ query |-> q,
      selected_index |-> SelectedTool(res.metadata),
      response |-> Strip(res.response),
      metadata |-> res.metadata ]

\* Lines 113-125 as a whole: what the handler returns for a query outcome.
HandlerReturn(q, res) ==
    IF res.kind = "raise" THEN RouterFailedResponse(res.exc)
    ELSE IF res.metadata.isNone THEN RouterFailedResponse(AttributeError)
    ELSE SuccessResponse(q, res)

\* ----- initial state --------------------------------------------------------
Init ==
    /\ env \in [LLAMA_API_KEY : BOOLEAN, OPENAI_API_KEY : BOOLEAN]
    /\ Settings_llm = 0
    /\ pc = [r \in Requests |-> "json"]
    /\ data = [r \in Requests |-> NoData]
    /\ effects = [r \in Requests |-> <<>>]
    /\ queryArgs = [r \in Requests |-> <<>>]
    /\ thread = [r \in Requests |-> "none"]
    /\ result = [r \in Requests |-> NoResult]
    /\ response = [r \in Requests |-> NoResponse]

\* ----- actions --------------------------------------------------------------
\* Line 41, `await request.json()` completes with a parsed payload.
ReadPayload(r) ==
    /\ pc[r] = "json"
    /\ \E d \in Payloads :
         /\ data' = [data EXCEPT ![r] = d]
         /\ pc' = [pc EXCEPT ![r] = "validate"]
    /\ UNCHANGED <<env, Settings_llm, effects, queryArgs, thread, result, response>>

\* Line 41, the body is not JSON: request.json() raises outside any try, and
\* the exception leaves the handler.
ReadPayloadRaises(r) ==
    /\ pc[r] = "json"
    /\ pc' = [pc EXCEPT ![r] = "raised"]
    /\ UNCHANGED <<env, Settings_llm, data, effects, queryArgs, thread, result, response>>

\* Lines 42-51: the query and the two keys are checked.  data.get on a
\* payload that is no mapping raises AttributeError, again outside any try.
Validate(r) ==
    /\ pc[r] = "validate"
    /\ IF data[r].kind # "mapping"
       THEN /\ pc' = [pc EXCEPT ![r] = "raised"]
            /\ UNCHANGED response
       ELSE IF ~Truthy(DataGetQuery(data[r]))
       THEN /\ pc' = [pc EXCEPT ![r] = "done"]
            /\ response' = [response EXCEPT ![r] = MissingQueryResponse]
       ELSE IF ~env.LLAMA_API_KEY \/ ~env.OPENAI_API_KEY
       THEN /\ pc' = [pc EXCEPT ![r] = "done"]
            /\ response' = [response EXCEPT ![r] = MissingKeysResponse]
       ELSE /\ pc' = [pc EXCEPT ![r] = "build"]
            /\ UNCHANGED response
    /\ UNCHANGED <<env, Settings_llm, data, effects, queryArgs, thread, result>>

\* Lines 53-112: the indices, the LLM, the engines and the router are built
\* and router_engine.query(query) is handed to a worker thread.  The only
\* argument of the call is the query.
BuildAndDispatch(r) ==
    /\ pc[r] = "build"
    /\ effects' = [effects EXCEPT ![r] = BuildSteps \o <<"query">>]
    /\ Settings_llm' = r
    /\ queryArgs' = [queryArgs EXCEPT ![r] = Append(@, <<DataGetQuery(data[r])>>)]
    /\ thread' = [thread EXCEPT ![r] = "running"]
    /\ pc' = [pc EXCEPT ![r] = "awaiting"]
    /\ UNCHANGED <<env, data, result, response>>

\* Lines 60-107 with the k-th dependency call raising: the except branch of
\* line 124 returns the error.  Settings.llm is written once line 79 is past.
BuildFails(r) ==
    /\ pc[r] = "build"
    /\ \E k \in 1..Len(BuildSteps) :
         /\ effects' = [effects EXCEPT ![r] = SubSeq(BuildSteps, 1, k)]
         /\ Settings_llm' = IF k > LlmStep THEN r ELSE Settings_llm
    /\ response' = [response EXCEPT ![r] = RouterFailedResponse(BuildError)]
    /\ pc' = [pc EXCEPT ![r] = "done"]
    /\ UNCHANGED <<env, data, queryArgs, thread, result>>

\* What the future of asyncio.to_thread holds once the thread has produced
\* outcome o: a cancelled future drops it.
Delivered(r, o) == IF pc[r] = "awaiting" THEN o ELSE result[r]

\* The worker thread finishes router_engine.query.  It does so whether or not
\* the coroutine that started it still waits for it.
ThreadFinish(r) ==
    /\ thread[r] = "running"
    /\ \/ \E o \in OkOutcomes : result' = [result EXCEPT ![r] = Delivered(r, o)]
       \/ \E o \in RaiseOutcomes : result' = [result EXCEPT ![r] = Delivered(r, o)]
    /\ thread' = [thread EXCEPT ![r] = "finished"]
    /\ UNCHANGED <<env, Settings_llm, pc, data, effects, queryArgs, response>>

\* Lines 112-125: the await returns or re-raises, and the handler returns.
Resume(r) ==
    /\ pc[r] = "awaiting"
    /\ thread[r] = "finished"
    /\ response' = [response EXCEPT ![r] = HandlerReturn(DataGetQuery(data[r]), result[r])]
    /\ pc' = [pc EXCEPT ![r] = "done"]
    /\ UNCHANGED <<env, Settings_llm, data, effects, queryArgs, thread, result>>

\* The request's task is cancelled at one of its awaits: CancelledError is
\* no Exception, so line 124 does not catch it and nothing is returned.  The
\* worker thread is not touched.
Cancel(r) ==
    /\ pc[r] \in {"json", "awaiting"}
    /\ pc' = [pc EXCEPT ![r] = "cancelled"]
    /\ UNCHANGED <<env, Settings_llm, data, effects, queryArgs, thread, result, response>>

Next ==
    \E r \in Requests :
        \/ ReadPayload(r)
        \/ ReadPayloadRaises(r)
        \/ Validate(r)
        \/ BuildAndDispatch(r)
        \/ BuildFails(r)
        \/ ThreadFinish(r)
        \/ Resume(r)
        \/ Cancel(r)

Spec == Init /\ [][Next]_vars

\* ----- vocabulary of the properties --------------------------------------
Count(seq, x) == Cardinality({i \in DOMAIN seq : seq[i] = x})

Returned(r) == DOMAIN response[r] # {}
IsError(r) == DOMAIN response[r] = {"error"}
IsSuccess(r) == "selected_index" \in DOMAIN response[r]

\* The request's coroutine has neither returned, raised nor been cancelled.
InFlight(r) == pc[r] \in {"json", "validate", "build", "awaiting"}

\* The payload has been read and holds no query, a null query or the empty
\* string as query.
QueryAbsentOrEmpty(r) ==
    /\ data[r].kind # "none"
    /\ \/ "query" \notin data[r].keys
       \/ data[r].query.type = "NoneType"
       \/ data[r].query.str = ""

\* The failure classes the retry policy calls transient.
TransientTypes == {"RemoteProtocolError", "ReadTimeout"}

HasSpace(v) == \E i \in DOMAIN v : v[i] = " "

RECURSIVE ReplaceSpaces(_)
ReplaceSpaces(v) ==
    IF v = <<>> THEN <<>>
    ELSE (IF Head(v) = " " THEN <<"%", "2", "0">> ELSE <<Head(v)>>) \o ReplaceSpaces(Tail(v))

\* The predicates a router_engine.query call was handed: whatever follows the
\* query in its arguments.
PredicatesOf(args) == SubSeq(args, 2, Len(args))

\* ----- C1 -------------------------------------------------------------------
\* C1: a request whose query is absent or empty gets exactly
\* {error: "Missing 'query' in request body"}, and no dependency is called
\* for it, neither before nor after the handler returns.
C1_MissingQueryNoCalls ==
    \A r \in Requests :
        QueryAbsentOrEmpty(r) =>
            /\ effects[r] = <<>>
            /\ queryArgs[r] = <<>>
            /\ thread[r] = "none"
            /\ pc[r] \in {"validate", "done"}
            /\ pc[r] = "done" => response[r] = [error |-> "Missing 'query' in request body"]

C3_NoPlaceholderIndex ==
    \A r \in Requests :
        IsSuccess(r) => response[r].selected_index \in Targets

\* ----- C4 -------------------------------------------------------------------
\* C4: when the router selected target T, the success response names T as
\* selected_index and T alone was queried.
C4_SelectedIsReported ==
    \A r \in Requests :
        (IsSuccess(r) /\ result[r].kind = "ok") =>
            /\ response[r].selected_index = result[r].sel
            /\ result[r].queried = {result[r].sel}

\* ----- C5 -------------------------------------------------------------------
\* C5: whatever fails while a request is processed, no exception leaves the
\* handler.
C5_NoExceptionEscapes == \A r \in Requests : pc[r] # "raised"

\* ----- C6 -------------------------------------------------------------------
\* C6: a request whose retrieval call failed transiently on every attempt
\* ends after exactly 3 invocations and 2 backoff waits, with an error that
\* carries the last failure's description.
C6_ThreeAttemptsTwoWaits ==
    \A r \in Requests :
        (pc[r] = "done" /\ result[r].kind = "raise" /\ result[r].exc.type \in TransientTypes) =>
            /\ Count(effects[r], "query") = 3
            /\ Count(effects[r], "sleep") = 2
            /\ IsError(r)

\* ----- C7 -------------------------------------------------------------------
\* C7: a non-transient error of the retrieval call means the call was made
\* exactly once, without any wait, and the request's response is the error
\* "Router query failed: " followed by the error's description.
C7_FatalNotRetried ==
    \A r \in Requests :
        (result[r].kind = "raise" /\ result[r].exc.type \notin TransientTypes) =>
            /\ Len(queryArgs[r]) = 1
            /\ Count(effects[r], "query") = 1
            /\ Count(effects[r], "sleep") = 0
            /\ pc[r] = "done" => response[r] = [error |-> "Router query failed: " \o result[r].exc.msg]

C7_Witness ==
    \E r \in Requests :
        /\ pc[r] = "done"
        /\ result[r].kind = "raise"
        /\ result[r].exc = AuthenticationError
        /\ IsError(r)

\* ----- C8 -------------------------------------------------------------------
\* C8: while a request is in flight, no step of another request writes
\* state shared between requests.
C8_NoSharedWrites ==
    [][ \A r \in Requests :
          (InFlight(r) /\ pc'[r] = pc[r] /\ thread'[r] = thread[r])
              => Settings_llm' = Settings_llm ]_vars

\* ----- C9 -------------------------------------------------------------------
\* C9: a cancelled request has no response and no dependency call still
\* running for it.
C9_CancelAbandonsCall ==
    \A r \in Requests :
        pc[r] = "cancelled" => (~Returned(r) /\ thread[r] # "running")

\* ----- C10 ------------------------------------------------------------------
\* C10: every retrieval call of a request whose filters hold an item with a
\* space in its value is handed that value and its %20 form as adjacent
\* predicates, in that order.
C10_SpaceVariantHanded ==
    \A r \in Requests :
        \A i \in DOMAIN queryArgs[r] :
            \A k \in DOMAIN data[r].filters :
                HasSpace(data[r].filters[k].value) =>
                    LET preds == PredicatesOf(queryArgs[r][i]) IN
                    \E j \in 1..(Len(preds) - 1) :
                        /\ preds[j].value = data[r].filters[k].value
                        /\ preds[j + 1].value = ReplaceSpaces(data[r].filters[k].value)

====
